---------------------------- MODULE Spec2Model ----------------------------
(***************************************************************************)
(* Navigation graph of mapillary-js: the asynchronous NewGraph (fetch/fill *)
(* lifecycle with its change stream) and the tile-ingesting Graph          *)
(* (addNodesFromAPI, worthiness promotion).                                *)
(***************************************************************************)
EXTENDS Integers, Sequences, FiniteSets, Bags, TLC

\* Number of distinct photo keys the callers use.
MaxKeys == 2

Keys == 1..MaxKeys

\* ------------------------------------------------------------------------
\* NewGraph
\* ------------------------------------------------------------------------

\* A node's fill before makeFull.
Null == "null"

\* A node's fill is Null or names the data it was given: "IFullNode" (of
\* imageByKeyFull), "IFillNode" (of imageByKeyFill), or "other" (given by
\* another holder of the node).

NoError == <<"none", 0>>

ErrAlreadyFetching(key) == <<"Already fetching", key>>
ErrNodeExists(key) == <<"Cannot fetch node that already exist in graph", key>>
ErrFillWhileFetching(key) == <<"Cannot fill node while fetching", key>>
ErrAlreadyFilling(key) == <<"Already filling", key>>
ErrNodeMissing(key) == <<"Cannot fill node that does not exist in graph", key>>
ErrAlreadyFilled(key) == <<"Cannot fill node that is already filled", key>>

VARIABLES
    ng_graph,       \* NewGraph._graph: the nodes ([key, fill]) by key
    _fetching,      \* NewGraph._fetching: the keys of the dictionary
    _filling,       \* NewGraph._filling: the keys of the dictionary
    _changed,       \* number of values pushed into NewGraph._changed$
    fullRequests,   \* key -> imageByKeyFull promises not yet settled
    fillRequests,   \* key -> imageByKeyFill promises not yet settled
    unhandled,      \* rejections that reached no handler: <<request, key>>
    thrown,         \* the Error the last synchronous call threw, or NoError
    subscribers,    \* NewGraph._changed$: the observers subscribed to it
    delivered       \* the observers the last value pushed was delivered to

VARIABLES
    _graph,          \* Graph._graph: the nodes by key
    _edges,          \* Graph._graph: the out-edges of each key, in outEdges order
    _nodeIndex,      \* Graph._nodeIndex: the bag of spatial items
    _sequences,      \* Graph._sequences: the Sequence by sequence key
    _unWorthyNodes,  \* Graph._unWorthyNodes: key -> boolean
    computed,        \* what the EdgeCalculator answered for the present nodes
    tiles,           \* the dictionary of loaded tiles the last call was given
    called,          \* the last call on the Graph
    calledWith,      \* the node and the direction it was given
    returned         \* what the last call on the Graph returned

VARIABLES
    value,           \* Spatial.wrap: the local variable value
    wrapArgs,        \* Spatial.wrap: the arguments of the call
    wrapPc           \* Spatial.wrap: idle, in the loop, returned or thrown

VARIABLES
    rendered,        \* SequenceDOMRenderer.render: the arguments of the last call
    vnode            \* SequenceDOMRenderer.render: the VNode it returned

graphVars == <<_graph, _edges, _nodeIndex, _sequences, _unWorthyNodes, computed,
               tiles, called, calledWith, returned>>

spatialVars == <<value, wrapArgs, wrapPc>>

rendererVars == <<rendered, vnode>>

ngVars == <<ng_graph, _fetching, _filling, _changed, fullRequests, fillRequests,
            unhandled, thrown, subscribers, delivered>>


NewNode(key, fill) == [key |-> key, fill |-> fill]

hasNode(key) == key \in DOMAIN ng_graph

getNode(key) == ng_graph[key]

fetching(key) == key \in _fetching

filling(key) == key \in _filling

\* The constructor (lines 33-42): empty dictionaries, a fresh subject, and the
\* graph handed in by the caller (an empty one by default), whose nodes may
\* or may not have their fill yet.
InitNewGraph ==
    /\ \E present \in SUBSET Keys : \E filled \in SUBSET present :
          ng_graph = [k \in present |->
                        NewNode(k, IF k \in filled THEN "other" ELSE Null)]
    /\ _fetching = {}
    /\ _filling = {}
    /\ _changed = 0
    /\ fullRequests = [k \in Keys |-> 0]
    /\ fillRequests = [k \in Keys |-> 0]
    /\ unhandled = {}
    /\ thrown = NoError
    /\ subscribers = {}
    /\ delivered = {}

\* A key and a node that are null, and the undefined that graphlib answers
\* for a key without node.
NullKey == 0

JsNull == [null |-> TRUE]

\* A call that was given no node, and a call that returns no value.
NoNode == [key |-> NullKey, dir |-> "", again |-> FALSE]

Void == [key |-> NullKey, node |-> JsNull]

Undefined == [undefined |-> TRUE]

\* The Graph constructor (lines 162-171).
InitGraph ==
    /\ _graph = <<>>
    /\ _edges = <<>>
    /\ _nodeIndex = EmptyBag
    /\ _sequences = <<>>
    /\ _unWorthyNodes = <<>>
    /\ computed = <<>>
    /\ tiles = {}
    /\ called = "none"
    /\ calledWith = NoNode
    /\ returned = Void

\* Spatial has no fields; no call of wrap is under way.
InitSpatial ==
    /\ value = 0
    /\ wrapArgs = [value |-> 0, min |-> 0, max |-> 0]
    /\ wrapPc = "idle"

\* The classes share no state: each graph constructs its own graphlib graph
\* and wrap touches its arguments only. A run of the program is a run of
\* the NewGraph beside a run of the Graph beside the calls of wrap, and each
\* is explored while the other objects rest as constructed.
GraphAside == InitGraph /\ UNCHANGED graphVars

NewGraphAside ==
    /\ ng_graph = <<>> /\ _fetching = {} /\ _filling = {} /\ _changed = 0
    /\ \A k \in Keys : fullRequests[k] = 0 /\ fillRequests[k] = 0
    /\ unhandled = {} /\ thrown = NoError
    /\ subscribers = {} /\ delivered = {}
    /\ UNCHANGED ngVars

SpatialAside == InitSpatial /\ UNCHANGED spatialVars

\* The renderer keeps no state; no call of render has been made.
NoRender == [rendered |-> FALSE]

InitRenderer ==
    /\ rendered = NoRender
    /\ vnode = NoRender

RendererAside == InitRenderer /\ UNCHANGED rendererVars

\* A throw statement: the call ends there and has changed nothing.
Throw(error) ==
    /\ thrown' = error
    /\ UNCHANGED <<ng_graph, _fetching, _filling, _changed, fullRequests,
                   fillRequests, unhandled, subscribers, delivered>>

\* this._changed$.next(this) (lines 84, 117): the Subject hands the value to
\* the observers subscribed at that moment and keeps nothing of it.
changed_next ==
    /\ _changed' = _changed + 1
    /\ delivered' = subscribers

\* The observers that subscribe to changed$.
Observers == {"a", "b"}

\* changed$ were it a subject that replays its last value to an observer
\* that subscribes.
subscribeWithReplay(observer) ==
    /\ GraphAside /\ SpatialAside /\ RendererAside
    /\ observer \notin subscribers
    /\ subscribers' = subscribers \cup {observer}
    /\ delivered' = IF _changed > 0 THEN delivered \cup {observer} ELSE delivered
    /\ UNCHANGED <<ng_graph, _fetching, _filling, _changed, fullRequests,
                   fillRequests, unhandled, thrown>>

\* graph.changed$.subscribe(observer) (lines 44-46): changed$ is the Subject
\* itself, and an observer that subscribes is told of no earlier value.
subscribe(observer) ==
    /\ GraphAside /\ SpatialAside /\ RendererAside
    /\ observer \notin subscribers
    /\ subscribers' = subscribers \cup {observer}
    /\ UNCHANGED <<ng_graph, _fetching, _filling, _changed, fullRequests,
                   fillRequests, unhandled, thrown, delivered>>

\* The observer ends its subscription.
unsubscribe(observer) ==
    /\ GraphAside /\ SpatialAside /\ RendererAside
    /\ observer \in subscribers
    /\ subscribers' = subscribers \ {observer}
    /\ UNCHANGED <<ng_graph, _fetching, _filling, _changed, fullRequests,
                   fillRequests, unhandled, thrown, delivered>>

\* fetch without its first check (lines 65-67).
fetchWithoutFetchingCheck(key) ==
    /\ GraphAside /\ SpatialAside /\ RendererAside
    /\ IF hasNode(key)
       THEN Throw(ErrNodeExists(key))
       ELSE /\ _fetching' = _fetching \cup {key}
            /\ fullRequests' = [fullRequests EXCEPT ![key] = @ + 1]
            /\ thrown' = NoError
            /\ UNCHANGED <<ng_graph, _filling, _changed, fillRequests,
                           unhandled, subscribers, delivered>>

\* fetch without its second check (lines 69-71).
fetchWithoutNodeCheck(key) ==
    /\ GraphAside /\ SpatialAside /\ RendererAside
    /\ IF key \in _fetching
       THEN Throw(ErrAlreadyFetching(key))
       ELSE /\ _fetching' = _fetching \cup {key}
            /\ fullRequests' = [fullRequests EXCEPT ![key] = @ + 1]
            /\ thrown' = NoError
            /\ UNCHANGED <<ng_graph, _filling, _changed, fillRequests,
                           unhandled, subscribers, delivered>>

\* NewGraph.fetch(key), the synchronous part (lines 64-74).
fetch(key) ==
    /\ GraphAside /\ SpatialAside /\ RendererAside
    /\ IF key \in _fetching
       THEN Throw(ErrAlreadyFetching(key))
       ELSE IF hasNode(key)
       THEN Throw(ErrNodeExists(key))
       ELSE /\ _fetching' = _fetching \cup {key}
            /\ fullRequests' = [fullRequests EXCEPT ![key] = @ + 1]
            /\ thrown' = NoError
            /\ UNCHANGED <<ng_graph, _filling, _changed, fillRequests,
                           unhandled, subscribers, delivered>>

\* The callback of fetch without line 83: the key stays in _fetching.
fetchFulfilledKeepsFetching(key) ==
    /\ GraphAside /\ SpatialAside /\ RendererAside
    /\ fullRequests[key] > 0
    /\ fullRequests' = [fullRequests EXCEPT ![key] = @ - 1]
    /\ ng_graph' = (key :> NewNode(key, "IFullNode")) @@ ng_graph
    /\ changed_next
    /\ UNCHANGED <<_fetching, _filling, fillRequests, unhandled, thrown,
                   subscribers>>

\* The callback of fetch without line 84: nothing is pushed into _changed$.
fetchFulfilledSilent(key) ==
    /\ GraphAside /\ SpatialAside /\ RendererAside
    /\ fullRequests[key] > 0
    /\ fullRequests' = [fullRequests EXCEPT ![key] = @ - 1]
    /\ ng_graph' = (key :> NewNode(key, "IFullNode")) @@ ng_graph
    /\ _fetching' = _fetching \ {key}
    /\ UNCHANGED <<_changed, _filling, fillRequests, unhandled, thrown,
                   subscribers, delivered>>

\* The callback of fetch were line 81 to set the node in a graph of its own:
\* the nodes the graph held are gone.
fetchFulfilledOnFreshGraph(key) ==
    /\ GraphAside /\ SpatialAside /\ RendererAside
    /\ fullRequests[key] > 0
    /\ fullRequests' = [fullRequests EXCEPT ![key] = @ - 1]
    /\ ng_graph' = (key :> NewNode(key, "IFullNode"))
    /\ _fetching' = _fetching \ {key}
    /\ changed_next
    /\ UNCHANGED <<_filling, fillRequests, unhandled, thrown, subscribers>>

\* The onFulfilled callback of fetch (lines 76-85): the node is built from the
\* IFullNode, made full, set in the graph; then the key leaves _fetching and
\* the graph is pushed into _changed$.
fetchFulfilled(key) ==
    /\ GraphAside /\ SpatialAside /\ RendererAside
    /\ fullRequests[key] > 0
    /\ fullRequests' = [fullRequests EXCEPT ![key] = @ - 1]
    /\ ng_graph' = (key :> NewNode(key, "IFullNode")) @@ ng_graph
    /\ _fetching' = _fetching \ {key}
    /\ changed_next
    /\ UNCHANGED <<_filling, fillRequests, unhandled, thrown, subscribers>>

\* The imageByKeyFull promise rejects: then() was given no onRejected
\* (lines 75-85), so no code of the graph runs and the derived promise, which
\* fetch does not return, rejects unhandled.
fetchRejected(key) ==
    /\ GraphAside /\ SpatialAside /\ RendererAside
    /\ fullRequests[key] > 0
    /\ fullRequests' = [fullRequests EXCEPT ![key] = @ - 1]
    /\ unhandled' = unhandled \cup {<<"imageByKeyFull", key>>}
    /\ UNCHANGED <<ng_graph, _fetching, _filling, _changed, fillRequests,
                   thrown, subscribers, delivered>>

\* fill without its second check (lines 93-95).
fillWithoutFillingCheck(key) ==
    /\ GraphAside /\ SpatialAside /\ RendererAside
    /\ IF key \in _fetching
       THEN Throw(ErrFillWhileFetching(key))
       ELSE IF ~hasNode(key)
       THEN Throw(ErrNodeMissing(key))
       ELSE IF getNode(key).fill # Null
       THEN Throw(ErrAlreadyFilled(key))
       ELSE /\ _filling' = _filling \cup {key}
            /\ fillRequests' = [fillRequests EXCEPT ![key] = @ + 1]
            /\ thrown' = NoError
            /\ UNCHANGED <<ng_graph, _fetching, _changed, fullRequests,
                           unhandled, subscribers, delivered>>

\* fill without its last check (lines 102-104).
fillWithoutFilledCheck(key) ==
    /\ GraphAside /\ SpatialAside /\ RendererAside
    /\ IF key \in _fetching
       THEN Throw(ErrFillWhileFetching(key))
       ELSE IF key \in _filling
       THEN Throw(ErrAlreadyFilling(key))
       ELSE IF ~hasNode(key)
       THEN Throw(ErrNodeMissing(key))
       ELSE /\ _filling' = _filling \cup {key}
            /\ fillRequests' = [fillRequests EXCEPT ![key] = @ + 1]
            /\ thrown' = NoError
            /\ UNCHANGED <<ng_graph, _fetching, _changed, fullRequests,
                           unhandled, subscribers, delivered>>

\* fill with line 106 moved above the checks of lines 97-104: the key is
\* marked as filling before the node is looked at.
fillMarkingBeforeNodeChecks(key) ==
    /\ GraphAside /\ SpatialAside /\ RendererAside
    /\ IF key \in _fetching
       THEN Throw(ErrFillWhileFetching(key))
       ELSE IF key \in _filling
       THEN Throw(ErrAlreadyFilling(key))
       ELSE /\ _filling' = _filling \cup {key}
            /\ IF ~hasNode(key)
               THEN /\ thrown' = ErrNodeMissing(key)
                    /\ UNCHANGED fillRequests
               ELSE IF getNode(key).fill # Null
               THEN /\ thrown' = ErrAlreadyFilled(key)
                    /\ UNCHANGED fillRequests
               ELSE /\ fillRequests' = [fillRequests EXCEPT ![key] = @ + 1]
                    /\ thrown' = NoError
            /\ UNCHANGED <<ng_graph, _fetching, _changed, fullRequests, unhandled,
                           subscribers, delivered>>

\* NewGraph.fill(key), the synchronous part (lines 88-107).
fill(key) ==
    /\ GraphAside /\ SpatialAside /\ RendererAside
    /\ IF key \in _fetching
       THEN Throw(ErrFillWhileFetching(key))
       ELSE IF key \in _filling
       THEN Throw(ErrAlreadyFilling(key))
       ELSE IF ~hasNode(key)
       THEN Throw(ErrNodeMissing(key))
       ELSE IF getNode(key).fill # Null
       THEN Throw(ErrAlreadyFilled(key))
       ELSE /\ _filling' = _filling \cup {key}
            /\ fillRequests' = [fillRequests EXCEPT ![key] = @ + 1]
            /\ thrown' = NoError
            /\ UNCHANGED <<ng_graph, _fetching, _changed, fullRequests,
                           unhandled, subscribers, delivered>>

\* The callback of fill without the check of lines 112-114.
fillFulfilledWithoutCheck(key) ==
    /\ GraphAside /\ SpatialAside /\ RendererAside
    /\ fillRequests[key] > 0
    /\ fillRequests' = [fillRequests EXCEPT ![key] = @ - 1]
    /\ _filling' = _filling \ {key}
    /\ ng_graph' = [ng_graph EXCEPT ![key].fill = "IFillNode"]
    /\ changed_next
    /\ UNCHANGED <<_fetching, fullRequests, unhandled, thrown, subscribers>>

\* The onFulfilled callback of fill (lines 109-118). The node is the one fill
\* read from the graph; no operation replaces the node of a key that is
\* filling, so it is still the graph's node of that key.
fillFulfilled(key) ==
    /\ GraphAside /\ SpatialAside /\ RendererAside
    /\ fillRequests[key] > 0
    /\ fillRequests' = [fillRequests EXCEPT ![key] = @ - 1]
    /\ _filling' = _filling \ {key}
    /\ IF getNode(key).fill # Null
          THEN UNCHANGED <<ng_graph, _changed, delivered>>
          ELSE /\ ng_graph' = [ng_graph EXCEPT ![key].fill = "IFillNode"]
               /\ changed_next
    /\ UNCHANGED <<_fetching, fullRequests, unhandled, thrown, subscribers>>

\* The imageByKeyFill promise rejects: as for fetch, nothing handles it.
fillRejected(key) ==
    /\ GraphAside /\ SpatialAside /\ RendererAside
    /\ fillRequests[key] > 0
    /\ fillRequests' = [fillRequests EXCEPT ![key] = @ - 1]
    /\ unhandled' = unhandled \cup {<<"imageByKeyFill", key>>}
    /\ UNCHANGED <<ng_graph, _fetching, _filling, _changed, fullRequests,
                   thrown, subscribers, delivered>>

\* Another holder of the node (getNode hands out the object) gives it its
\* fill: NewNode.makeFull, not called through the graph.
makeFull(key) ==
    /\ GraphAside /\ SpatialAside /\ RendererAside
    /\ hasNode(key)
    /\ getNode(key).fill = Null
    /\ ng_graph' = [ng_graph EXCEPT ![key].fill = "other"]
    /\ UNCHANGED <<_fetching, _filling, _changed, fullRequests, fillRequests,
                   unhandled, thrown, subscribers, delivered>>

\* ------------------------------------------------------------------------
\* Graph
\* ------------------------------------------------------------------------

\* Side of a tile in metres of the local frame.
TileSize == 60

\* Number of images one tile payload holds at most.
MaxIms == 1

\* _computeHs: the distance to a tile edge below which the neighbour covers.
Threshold == 20

\* A geohash is modelled by its cell <<column, row>> in the grid of its
\* precision; the payloads are those of one tile and the caller's dictionary
\* of loaded tiles ranges over it and its northern neighbour.
HomeTile == <<0, 0>>

TileUniverse == {HomeTile, <<0, 1>>}

\* geohash.bounds(h): the south-west and north-east corners.
bounds(h) ==
    [sw |-> [lat |-> h[2] * TileSize, lon |-> h[1] * TileSize],
     ne |-> [lat |-> (h[2] + 1) * TileSize, lon |-> (h[1] + 1) * TileSize]]

\* geohash.neighbours(h): the eight adjacent cells.
neighbours(h) ==
    [n  |-> <<h[1], h[2] + 1>>, nw |-> <<h[1] - 1, h[2] + 1>>,
     w  |-> <<h[1] - 1, h[2]>>, sw |-> <<h[1] - 1, h[2] - 1>>,
     s  |-> <<h[1], h[2] - 1>>, se |-> <<h[1] + 1, h[2] - 1>>,
     e  |-> <<h[1] + 1, h[2]>>, ne |-> <<h[1] + 1, h[2] + 1>>]

\* GeoCoords.geodeticToEnu at tile scale: east, north, up in metres from the
\* reference; positions are kept in metres of one planar frame.
geodeticToEnu(lat, lon, alt, refLat, refLon, refAlt) ==
    <<lon - refLon, lat - refLat, alt - refAlt>>

\* _computeHs with || for && at lines 422, 430, 438 and 446: a diagonal
\* neighbour is pushed when the node is near either of its edges.
_computeHsDiagonalOfEither(latLon, sw, ne, h, nbs) ==
    LET left == latLon.lon - sw.lon
        right == ne.lon - latLon.lon
        bottom == latLon.lat - sw.lat
        top == ne.lat - latLon.lat
        l == left < Threshold
        r == right < Threshold
        b == bottom < Threshold
        t == top < Threshold
    IN  <<h>>
        \o (IF t THEN <<nbs.n>> ELSE <<>>)
        \o (IF t \/ l THEN <<nbs.nw>> ELSE <<>>)
        \o (IF l THEN <<nbs.w>> ELSE <<>>)
        \o (IF l \/ b THEN <<nbs.sw>> ELSE <<>>)
        \o (IF b THEN <<nbs.s>> ELSE <<>>)
        \o (IF b \/ r THEN <<nbs.se>> ELSE <<>>)
        \o (IF r THEN <<nbs.e>> ELSE <<>>)
        \o (IF r \/ t THEN <<nbs.ne>> ELSE <<>>)

\* Graph._computeHs (lines 380-451).
_computeHs(latLon, sw, ne, h, nbs) ==
    LET bl == <<0, 0, 0>>
        tr == geodeticToEnu(ne.lat, ne.lon, 0, sw.lat, sw.lon, 0)
        position == geodeticToEnu(latLon.lat, latLon.lon, 0, sw.lat, sw.lon, 0)
        left == position[1] - bl[1]
        right == tr[1] - position[1]
        bottom == position[2] - bl[2]
        top == tr[2] - position[2]
        l == left < Threshold
        r == right < Threshold
        b == bottom < Threshold
        t == top < Threshold
    IN  <<h>>
        \o (IF t THEN <<nbs.n>> ELSE <<>>)
        \o (IF t /\ l THEN <<nbs.nw>> ELSE <<>>)
        \o (IF l THEN <<nbs.w>> ELSE <<>>)
        \o (IF l /\ b THEN <<nbs.sw>> ELSE <<>>)
        \o (IF b THEN <<nbs.s>> ELSE <<>>)
        \o (IF b /\ r THEN <<nbs.se>> ELSE <<>>)
        \o (IF r THEN <<nbs.e>> ELSE <<>>)
        \o (IF r /\ t THEN <<nbs.ne>> ELSE <<>>)

\* The keys of the images of the tile.
ImageKeys == {1, 2}

\* The images (IAPINavImIm) a payload can hold for a key: one in the middle
\* of the tile, and one whose corrected latitude puts it near the northern
\* edge.
ImagesOf(key) ==
    {[key |-> key, lat |-> TileSize \div 2, lon |-> TileSize \div 2],
     [key |-> key, lat |-> TileSize \div 2, lon |-> TileSize \div 2,
      clat |-> TileSize - (Threshold \div 2)]}

Images == UNION {ImagesOf(key) : key \in ImageKeys}

SeqsUpTo(S, n) == UNION {[1..m -> S] : m \in 0..n}

Range(f) == {f[i] : i \in DOMAIN f}

\* The keys a payload can give for the sequence (IAPINavImS) of its images:
\* a third image, of another tile, is the last of the sequence or the first.
SequenceKeys == {<<1, 2, 3>>, <<3, 1, 2>>}

\* Every key a sequence names.
SequenceKeyUniverse == UNION {Range(keys) : keys \in SequenceKeys}

\* addNodesFromAPI's data: undefined, or the payload (IAPINavIm) of a tile.
Payloads ==
    {[hs |-> <<HomeTile>>,
      ss |-> <<[key |-> "s", keys |-> keys]>>,
      ims |-> ims] : keys \in SequenceKeys, ims \in SeqsUpTo(Images, MaxIms)}

\* new Sequence(s): the key and the ordered keys of its images.
Sequence(s) == [key |-> s.key, keys |-> s.keys]

\* Lines 188-206 without the test of lines 191-194: the sequence of the
\* payload takes the place of the one that was registered.
RECURSIVE parseSequencesOverwriting(_, _)
parseSequencesOverwriting(sequences, ss) ==
    IF ss = <<>>
    THEN sequences
    ELSE parseSequencesOverwriting((Head(ss).key :> Sequence(Head(ss))) @@ sequences,
                                   Tail(ss))

\* Lines 188-206, this._sequences after the loop: a sequence whose key is
\* known is skipped.
RECURSIVE parseSequences(_, _)
parseSequences(sequences, ss) ==
    IF ss = <<>>
    THEN sequences
    ELSE LET s == Head(ss)
         IN  parseSequences(IF s.key \in DOMAIN sequences
                            THEN sequences
                            ELSE (s.key :> Sequence(s)) @@ sequences,
                            Tail(ss))

\* this._sequenceHashes[skey] (lines 199-204): image key -> Sequence, for the
\* keys of the Sequence that was constructed for skey. A Sequence is never
\* replaced, so its key stands for the object.
_sequenceHashes(sequences, skey) ==
    [key \in Range(sequences[skey].keys) |-> skey]

\* hSequenceHashes after the loop (lines 186-206).
hSequenceHashes(sequences, ss) ==
    [i \in DOMAIN ss |-> _sequenceHashes(parseSequences(sequences, ss), ss[i].key)]

\* Lines 234-240: the Sequence of the first hash that holds the image's key.
sequenceOfIm(im, hashes) ==
    LET hits == {i \in DOMAIN hashes : im.key \in DOMAIN hashes[i]}
    IN  IF hits = {}
        THEN Null
        ELSE hashes[CHOOSE i \in hits : \A j \in hits : i <= j][im.key]

\* new Node(ca, latLon, false, sequence, im, hs) (line 244); the node has no
\* cached edges yet.
Node(latLon, worthy, sequence, im, hs) ==
    [key |-> im.key, latLon |-> latLon, worthy |-> worthy, sequence |-> sequence,
     hs |-> hs, edges |-> <<>>, edgesCached |-> FALSE]

\* The node the map callback builds for one image (lines 208-249).
NodeFromIm(im, h, hashes) ==
    LET lat == IF "clat" \in DOMAIN im THEN im.clat ELSE im.lat
        lon == IF "clon" \in DOMAIN im THEN im.clon ELSE im.lon
        latLon == [lat |-> lat, lon |-> lon]
        hs == _computeHs(latLon, bounds(h).sw, bounds(h).ne, h, neighbours(h))
    IN  Node(latLon, FALSE, sequenceOfIm(im, hashes), im, hs)

\* { lat, lon, node } (line 511): the item refers to its node by the key.
SpatialItem(node) == [lat |-> node.latLon.lat, lon |-> node.latLon.lon, node |-> node.key]

\* _insertNodes without the check of lines 507-509: every node is inserted.
RECURSIVE _insertNodesWithoutCheck(_, _)
_insertNodesWithoutCheck(g, nodes) ==
    IF nodes = <<>>
    THEN g
    ELSE LET node == Head(nodes)
         IN  _insertNodesWithoutCheck(
                 [graph |-> (node.key :> node) @@ g.graph,
                  nodeIndex |-> g.nodeIndex (+) SetToBag({SpatialItem(node)}),
                  edges |-> g.edges @@ (node.key :> <<>>)],
                 Tail(nodes))

\* _insertNodes without line 511: the node is set in the graph and not
\* inserted into the index.
RECURSIVE _insertNodesUnindexed(_, _)
_insertNodesUnindexed(g, nodes) ==
    IF nodes = <<>>
    THEN g
    ELSE LET node == Head(nodes)
         IN  _insertNodesUnindexed(
                 IF node.key \in DOMAIN g.graph
                 THEN g
                 ELSE [graph |-> (node.key :> node) @@ g.graph,
                       nodeIndex |-> g.nodeIndex,
                       edges |-> g.edges @@ (node.key :> <<>>)],
                 Tail(nodes))

\* Graph._insertNode, Graph._insertNodes (lines 496-513) on the graph, its
\* out-edges and the index: the nodes are inserted in order, and a key whose
\* node the graph already holds is skipped.
RECURSIVE _insertNodes(_, _)
_insertNodes(g, nodes) ==
    IF nodes = <<>>
    THEN g
    ELSE LET node == Head(nodes)
         IN  _insertNodes(
                 IF node.key \in DOMAIN g.graph
                 THEN g
                 ELSE [graph |-> (node.key :> node) @@ g.graph,
                       nodeIndex |-> g.nodeIndex (+) SetToBag({SpatialItem(node)}),
                       edges |-> g.edges @@ (node.key :> <<>>)],
                 Tail(nodes))

\* The loop of lines 531-534 with || for &&: one loaded tile is enough.
CoveredByAny(node, loaded) == \E i \in DOMAIN node.hs : node.hs[i] \in loaded

\* Lines 531-534: every tile of the node's hs is loaded.
Covered(node, loaded) == \A i \in DOMAIN node.hs : node.hs[i] \in loaded

\* Graph._makeNodesWorthy (lines 515-546) on a graph and a dictionary of
\* unworthy keys: the graph with the covered nodes made worthy, and the
\* dictionary without the worthy keys.
_makeNodesWorthy(graph, unWorthy, loaded) ==
    LET promoted == {key \in DOMAIN unWorthy :
                        unWorthy[key] /\ Covered(graph[key], loaded)}
        worthyKeys == {key \in DOMAIN unWorthy : ~unWorthy[key]} \cup promoted
    IN  [graph |-> [key \in DOMAIN graph |->
                      IF key \in promoted
                      THEN [graph[key] EXCEPT !.worthy = TRUE]
                      ELSE graph[key]],
         unWorthy |-> [key \in DOMAIN unWorthy \ worthyKeys |-> unWorthy[key]]]

\* Graph.addNodesFromAPI(data, tiles) (lines 177-253).
addNodesFromAPI(data, loaded) ==
    /\ NewGraphAside /\ SpatialAside /\ RendererAside
    /\ calledWith' = NoNode
    /\ returned' = Void
    /\ IF data = Undefined
       THEN /\ called' = "addNodesFromAPI(undefined)"
            /\ tiles' = loaded
            /\ UNCHANGED <<_graph, _edges, _nodeIndex, _sequences, _unWorthyNodes,
                           computed>>
       ELSE LET h == data.hs[1]
                hashes == hSequenceHashes(_sequences, data.ss)
                nodes == [i \in DOMAIN data.ims |-> NodeFromIm(data.ims[i], h, hashes)]
                marked == [key \in DOMAIN _unWorthyNodes
                                  \cup {nodes[i].key : i \in DOMAIN nodes} |-> TRUE]
                inserted == _insertNodes([graph |-> _graph, nodeIndex |-> _nodeIndex,
                                          edges |-> _edges], nodes)
                result == _makeNodesWorthy(inserted.graph, marked, loaded)
            IN  /\ _sequences' = parseSequences(_sequences, data.ss)
                /\ _graph' = result.graph
                /\ _edges' = inserted.edges
                /\ _nodeIndex' = inserted.nodeIndex
                /\ _unWorthyNodes' = result.unWorthy
                /\ tiles' = loaded
                /\ called' = "addNodesFromAPI(data)"
                /\ computed' = IF result.graph = _graph THEN computed ELSE <<>>

\* ------------------------------------------------------------------------
\* Graph: edges
\* ------------------------------------------------------------------------

\* The directions (EdgeDirection) the model tells apart: the two of the
\* sequence edges and one of the edges computed from the potential edges.
SpatialDirections == {"Similar"}

EdgeDirection == {"Next", "Prev"} \cup SpatialDirections

\* The edges the calculators return for one node at most, beside its
\* sequence edges.
MaxEdges == 2

\* The side of the search box (line 152: 0.001 degrees), in metres of the
\* frame.
_boxWidth == 111

\* An IEdge.
Edge(from, to, direction) == [from |-> from, to |-> to, data |-> [direction |-> direction]]

\* Graph.getNode(key) (lines 261-263): graphlib answers undefined for a key
\* that has no node.
Graph_getNode(key) == IF key \in DOMAIN _graph THEN _graph[key] ELSE Undefined

\* Graph.getEdges(node) (lines 269-281) on the out-edges of the graph.
getEdges(edges, node) ==
    [i \in DOMAIN edges[node.key] |->
        [data |-> edges[node.key][i].data,
         from |-> edges[node.key][i].v,
         to |-> edges[node.key][i].w]]

\* graphlib's setEdge(v, w, value, name) on a multigraph (line 332): the edge
\* <<v, w, name>> gets the value, at its place in outEdges(v) when it exists
\* and at the end otherwise; a node is created for w when there is none.
setEdge(edges, v, w, data, name) ==
    LET out == edges[v]
        same == {i \in DOMAIN out : out[i].w = w /\ out[i].name = name}
        set == IF same = {}
               THEN Append(out, [v |-> v, w |-> w, name |-> name, data |-> data])
               ELSE [i \in DOMAIN out |->
                       IF i \in same THEN [out[i] EXCEPT !.data = data] ELSE out[i]]
    IN  [key \in DOMAIN edges \cup {w} |->
            IF key = v THEN set
            ELSE IF key \in DOMAIN edges THEN edges[key] ELSE <<>>]

\* The loop of lines 331-333; the name node.key + edge.to + direction is the
\* triple of its parts.
RECURSIVE setEdges(_, _, _)
setEdges(edges, node, list) ==
    IF list = <<>>
    THEN edges
    ELSE LET edge == Head(list)
         IN  setEdges(setEdge(edges, node.key, edge.to, edge.data,
                              <<node.key, edge.to, edge.data.direction>>),
                      node, Tail(list))

\* _addEdgesToNode without the loop of lines 327-329: no edge is removed.
_addEdgesToNodeWithoutRemoval(edges, node, list) == setEdges(edges, node, list)

\* _addEdgesToNode with the two loops in the other order: the edges that
\* were there before the call are removed after the new ones are set.
_addEdgesToNodeRemovingLast(edges, node, list) ==
    LET before == {<<e.w, e.name>> : e \in Range(edges[node.key])}
        after == setEdges(edges, node, list)
    IN  [after EXCEPT ![node.key] =
            SelectSeq(@, LAMBDA e : <<e.w, e.name>> \notin before)]

\* _addEdgesToNode with an edge name that is new for every edge of the list
\* (its place in the list): every edge of the list becomes an edge of the
\* graph.
_addEdgesToNodeNamedByCount(edges, node, list) ==
    [key \in DOMAIN edges \cup {list[i].to : i \in DOMAIN list} |->
        IF key = node.key
        THEN [i \in DOMAIN list |->
                [v |-> node.key, w |-> list[i].to, name |-> <<node.key, i>>,
                 data |-> list[i].data]]
        ELSE IF key \in DOMAIN edges THEN edges[key] ELSE <<>>]

\* Graph._addEdgesToNode(node, edges) (lines 324-334): the out-edges of the
\* node are removed, then the edges of the list are set.
_addEdgesToNode(edges, node, list) ==
    setEdges([edges EXCEPT ![node.key] = <<>>], node, list)

\* Sequence.findNextKey, Sequence.findPrevKey: the neighbours of the key in
\* the sequence's keys, null at its ends.
findNextKey(sequence, key) ==
    LET at == {i \in DOMAIN sequence.keys : sequence.keys[i] = key}
        i == CHOOSE i \in at : \A j \in at : i <= j
    IN  IF at = {} \/ i + 1 > Len(sequence.keys) THEN NullKey ELSE sequence.keys[i + 1]

findPrevKey(sequence, key) ==
    LET at == {i \in DOMAIN sequence.keys : sequence.keys[i] = key}
        i == CHOOSE i \in at : \A j \in at : i <= j
    IN  IF at = {} \/ i - 1 < 1 THEN NullKey ELSE sequence.keys[i - 1]

\* EdgeCalculator.computeSequenceEdges(node) (line 346): the Next edge and
\* the Prev edge of the node in its sequence.
computeSequenceEdges(node) ==
    IF node.sequence = Null
    THEN <<>>
    ELSE LET next == findNextKey(_sequences[node.sequence], node.key)
             prev == findPrevKey(_sequences[node.sequence], node.key)
         IN  (IF next # NullKey THEN <<Edge(node.key, next, "Next")>> ELSE <<>>)
             \o (IF prev # NullKey THEN <<Edge(node.key, prev, "Prev")>> ELSE <<>>)

\* rbush's search (line 356): the items inside the box, borders included.
search(index, box) ==
    {item \in BagToSet(index) :
        /\ box.minX <= item.lon /\ item.lon <= box.maxX
        /\ box.minY <= item.lat /\ item.lat <= box.maxY}

\* Lines 347-359: the keys of the nodes in the box around the node.
nodesInBox(node) ==
    LET minLon == node.latLon.lon - _boxWidth \div 2
        minLat == node.latLon.lat - _boxWidth \div 2
        maxLon == node.latLon.lon + _boxWidth \div 2
        maxLat == node.latLon.lat + _boxWidth \div 2
    IN  {item.node : item \in search(_nodeIndex, [maxX |-> maxLon, maxY |-> maxLat,
                                                  minX |-> minLon, minY |-> minLat])}

\* Line 347.
fallbackKeys(node) == {edge.to : edge \in Range(computeSequenceEdges(node))}

\* EdgeCalculator.getPotentialEdges(node, nodes, fallbackKeys) (line 361): the
\* keys the potential edges lead to.
getPotentialEdges(node, nodes, fallback) == (nodes \cup fallback) \ {node.key}

\* The edges a node can have beside its sequence edges, and the lists of them
\* the calculators can return.
EdgesFrom(key) ==
    {Edge(key, to, direction) : to \in SequenceKeyUniverse \ {key},
                                direction \in SpatialDirections}

\* computeStepEdges, computeTurnEdges, computePanoEdges,
\* computePerspectiveToPanoEdges, computeSimilarEdges (lines 363-373), their
\* results concatenated: any list of edges along potential edges, and the
\* list they returned before when the nodes are what they were then.
SpatialEdges(node) ==
    LET potentialEdges == getPotentialEdges(node, nodesInBox(node), fallbackKeys(node))
    IN  IF node.key \in DOMAIN computed
        THEN {computed[node.key]}
        ELSE {list \in SeqsUpTo(EdgesFrom(node.key), MaxEdges) :
                 \A i \in DOMAIN list : list[i].to \in potentialEdges}

\* _computeEdges without the check of lines 342-344.
_computeEdgesWithoutWorthyCheck(edges, node, spatial) ==
    [computed |-> TRUE,
     edges |-> _addEdgesToNode(edges, node, computeSequenceEdges(node) \o spatial)]

\* _computeEdges with = for = edges.concat( at line 363: the sequence edges
\* are dropped.
_computeEdgesWithoutSequenceEdges(edges, node, spatial) ==
    IF ~node.worthy
    THEN [computed |-> FALSE, edges |-> edges]
    ELSE [computed |-> TRUE, edges |-> _addEdgesToNode(edges, node, spatial)]

\* Graph._computeEdges(node) (lines 341-378), given what the calculators
\* return for the potential edges: the value returned and the out-edges of
\* the graph.
_computeEdges(edges, node, spatial) ==
    IF ~node.worthy
    THEN [computed |-> FALSE, edges |-> edges]
    ELSE [computed |-> TRUE,
          edges |-> _addEdgesToNode(edges, node, computeSequenceEdges(node) \o spatial)]

\* Graph.cacheNode(node) (lines 287-291) on a node of the graph;
\* node.cacheEdges stores the edges in the node.
cacheNode(key, spatial) ==
    /\ NewGraphAside /\ SpatialAside /\ RendererAside
    /\ key \in DOMAIN _graph
    /\ spatial \in (IF _graph[key].worthy THEN SpatialEdges(_graph[key]) ELSE {<<>>})
    /\ LET node == _graph[key]
           result == _computeEdges(_edges, node, spatial)
       IN  /\ _edges' = result.edges
           /\ _graph' = IF result.computed
                        THEN [_graph EXCEPT ![key].edges = getEdges(result.edges, node),
                                            ![key].edgesCached = TRUE]
                        ELSE _graph
           /\ computed' = IF node.worthy THEN (key :> spatial) @@ computed ELSE computed
    /\ called' = "cacheNode"
    /\ calledWith' = [key |-> key, dir |-> "",
                      again |-> called = "cacheNode" /\ calledWith.key = key]
    /\ returned' = Void
    /\ UNCHANGED <<_nodeIndex, _sequences, _unWorthyNodes, tiles>>

\* nextKey without the test of line 311: the first out-edge is taken.
nextKeyOfAnyDirection(outEdges, dir) ==
    IF outEdges = <<>>
    THEN NullKey
    ELSE Head(outEdges).w

\* Graph.nextKey(node, dir) (lines 305-317) on the out-edges of the node.
RECURSIVE nextKey(_, _)
nextKey(outEdges, dir) ==
    IF outEdges = <<>>
    THEN NullKey
    ELSE IF Head(outEdges).data.direction = dir
         THEN Head(outEdges).w
         ELSE nextKey(Tail(outEdges), dir)

\* Graph.nextNode(node, dir) (lines 299-303).
nextNode(key, dir) ==
    LET next == nextKey(_edges[key], dir)
    IN  IF next = NullKey THEN JsNull ELSE Graph_getNode(next)

\* A caller asks for the next key and the next node of a node of the graph.
next(key, dir) ==
    /\ NewGraphAside /\ SpatialAside /\ RendererAside
    /\ key \in DOMAIN _graph
    /\ returned' = [key |-> nextKey(_edges[key], dir), node |-> nextNode(key, dir)]
    /\ called' = "nextNode"
    /\ calledWith' = [key |-> key, dir |-> dir, again |-> FALSE]
    /\ UNCHANGED <<_graph, _edges, _nodeIndex, _sequences, _unWorthyNodes, computed,
                   tiles>>

\* ------------------------------------------------------------------------
\* Spatial
\* ------------------------------------------------------------------------

\* The values and the limits wrap is called with lie within these.
MaxValue == 5

MaxLimit == 2

\* Math.PI in the unit of the angles: a quarter of a turn is 1.
Pi == 2

\* Line 596 with its second test left out.
AboveOnly(v, min, max) == v > max

\* Line 596: the condition of the loop.
Outside(v, min, max) == v > max \/ v < min

\* Spatial.wrap(value, min, max), lines 589-594: the check of the arguments.
wrap(v, min, max) ==
    /\ NewGraphAside /\ GraphAside /\ RendererAside
    /\ wrapPc # "loop"
    /\ wrapArgs' = [value |-> v, min |-> min, max |-> max]
    /\ value' = v
    /\ wrapPc' = IF max < min THEN "thrown" ELSE "loop"

\* Spatial.wrapAngle(angle) (lines 612-614).
wrapAngle(angle) == wrap(angle, -Pi, Pi)

\* Lines 596-602: one test of the loop's condition and one run of its body.
wrapLoop ==
    /\ NewGraphAside /\ GraphAside /\ RendererAside
    /\ wrapPc = "loop"
    /\ Outside(value, wrapArgs.min, wrapArgs.max)
    /\ LET interval == wrapArgs.max - wrapArgs.min
       IN  value' = IF value > wrapArgs.max
                    THEN value - interval
                    ELSE IF value < wrapArgs.min
                         THEN value + interval
                         ELSE value
    /\ UNCHANGED <<wrapArgs, wrapPc>>

\* Line 604: the loop is left and value returned.
wrapReturn ==
    /\ NewGraphAside /\ GraphAside /\ RendererAside
    /\ wrapPc = "loop"
    /\ ~Outside(value, wrapArgs.min, wrapArgs.max)
    /\ wrapPc' = "returned"
    /\ UNCHANGED <<wrapArgs, value>>

\* ------------------------------------------------------------------------
\* SequenceDOMRenderer
\* ------------------------------------------------------------------------

\* The nodes render is given: node 1 with its cached edges, at most one Next
\* edge and at most one Prev edge (the sequence edges of cacheNode), each to
\* one of two keys, after a Similar edge or without one.
RenderedNodes ==
    {[key |-> 1,
      edges |-> (IF similar THEN <<Edge(1, 2, "Similar")>> ELSE <<>>)
                \o (IF to_next # NullKey THEN <<Edge(1, to_next, "Next")>> ELSE <<>>)
                \o (IF to_prev # NullKey THEN <<Edge(1, to_prev, "Prev")>> ELSE <<>>)] :
        similar \in BOOLEAN, to_next \in {NullKey, 2, 3}, to_prev \in {NullKey, 2, 3}}

\* ISequenceConfiguration: the fields render reads; highlightKey is null or
\* a key.
Configurations ==
    [visible : BOOLEAN, direction : EdgeDirection, playing : BOOLEAN,
     highlightKey : {NullKey, 2}]

\* Lines 26-37: the destination of the last edge of the direction, null
\* when there is none.
stepKey(edges, direction) ==
    LET hits == {i \in DOMAIN edges : edges[i].data.direction = direction}
    IN  IF hits = {}
        THEN NullKey
        ELSE edges[CHOOSE i \in hits : \A j \in hits : j <= i].to

\* _createPlayingButton without the tests of configuration.direction at
\* lines 55-56: a Next edge or a Prev edge is enough to play.
_createPlayingButtonOfEitherDirection(next_key, prev_key, configuration) ==
    LET canPlay == next_key # NullKey \/ prev_key # NullKey
    IN  [selector |-> IF canPlay THEN "div.SequencePlay" ELSE "div.SequencePlayDisabled",
         onclick |-> IF configuration.playing THEN "component.stop()"
                     ELSE IF canPlay THEN "component.play()" ELSE Null,
         textContent |-> IF configuration.playing THEN "s" ELSE "p"]

\* SequenceDOMRenderer._createPlayingButton (lines 49-74).
_createPlayingButton(next_key, prev_key, configuration) ==
    LET canPlay == \/ configuration.direction = "Next" /\ next_key # NullKey
                   \/ configuration.direction = "Prev" /\ prev_key # NullKey
    IN  [selector |-> IF canPlay THEN "div.SequencePlay" ELSE "div.SequencePlayDisabled",
         onclick |-> IF configuration.playing THEN "component.stop()"
                     ELSE IF canPlay THEN "component.play()" ELSE Null,
         textContent |-> IF configuration.playing THEN "s" ELSE "p"]

\* SequenceDOMRenderer._getStepClassName (lines 118-132).
_getStepClassName(direction, key, highlightKey) ==
    LET className == IF direction = "Next" THEN "SequenceStepNext" ELSE "SequenceStepPrev"
    IN  IF key = NullKey
        THEN className \o "Disabled"
        ELSE IF highlightKey # NullKey /\ highlightKey = key
             THEN className \o "Highlight"
             ELSE className

\* SequenceDOMRenderer._createSequenceArrows (lines 76-116): the arrow of
\* Next and the arrow of Prev.
_createSequenceArrows(next_key, prev_key, configuration) ==
    <<[selector |-> "div." \o _getStepClassName("Next", next_key, configuration.highlightKey),
       onclick |-> IF next_key # NullKey THEN "navigator.moveDir(Next)" ELSE Null,
       textContent |-> "n"],
      [selector |-> "div." \o _getStepClassName("Prev", prev_key, configuration.highlightKey),
       onclick |-> IF prev_key # NullKey THEN "navigator.moveDir(Prev)" ELSE Null,
       textContent |-> "p"]>>

\* SequenceDOMRenderer.render(node, configuration, ...) (lines 15-47).
render(node, configuration) ==
    /\ NewGraphAside /\ GraphAside /\ SpatialAside
    /\ rendered' = [node |-> node, configuration |-> configuration]
    /\ vnode' =
          IF ~configuration.visible
          THEN [selector |-> "div.SequenceContainer", children |-> <<>>]
          ELSE LET next_key == stepKey(node.edges, "Next")
                   prev_key == stepKey(node.edges, "Prev")
                   playingButton == _createPlayingButton(next_key, prev_key, configuration)
                   arrows == _createSequenceArrows(next_key, prev_key, configuration)
               IN  [selector |-> "div.SequenceContainer",
                    children |-> arrows \o <<playingButton>>]

\* ------------------------------------------------------------------------
\* Specifications
\* ------------------------------------------------------------------------

vars == <<ngVars, graphVars, spatialVars, rendererVars>>

Init == InitNewGraph /\ InitGraph /\ InitSpatial /\ InitRenderer

\* The NewGraph, and the Graph as tiles are ingested.
Next ==
    \/ \E key \in Keys :
          \/ fetch(key)
          \/ fetchFulfilled(key)
          \/ fetchRejected(key)
          \/ fill(key)
          \/ fillFulfilled(key)
          \/ fillRejected(key)
          \/ makeFull(key)
    \/ \E data \in Payloads \cup {Undefined} : \E loaded \in SUBSET TileUniverse :
          addNodesFromAPI(data, loaded)

Spec == Init /\ [][Next]_vars

\* The Graph as tiles are ingested, nodes cached and callers navigate.
InitEdges == Init /\ ng_graph = <<>>

\* The payloads as the tile is loaded image by image.
ImagePayloads == {data \in Payloads : Len(data.ims) <= 1}

NextEdges ==
    \/ \E data \in ImagePayloads \cup {Undefined} : \E loaded \in {{HomeTile}, TileUniverse} :
          addNodesFromAPI(data, loaded)
    \/ \E key \in ImageKeys : \E spatial \in SeqsUpTo(EdgesFrom(key), MaxEdges) :
          cacheNode(key, spatial)

SpecEdges == InitEdges /\ [][NextEdges]_vars

\* The Graph as tiles are ingested whole, nodes cached and callers navigate.
NextNavigate ==
    \/ \E data \in ImagePayloads : addNodesFromAPI(data, TileUniverse)
    \/ \E key \in ImageKeys : \E spatial \in SeqsUpTo(EdgesFrom(key), MaxEdges) :
          cacheNode(key, spatial)
    \/ \E key \in ImageKeys : \E dir \in EdgeDirection : next(key, dir)

SpecNavigate == InitEdges /\ [][NextNavigate]_vars

\* The calls and the completions of the NewGraph.
NextNewGraph ==
    \E key \in Keys :
        \/ fetch(key)
        \/ fetchFulfilled(key)
        \/ fetchRejected(key)
        \/ fill(key)
        \/ fillFulfilled(key)
        \/ fillRejected(key)
        \/ makeFull(key)

\* The NewGraph as observers subscribe to changed$ and leave it.
NextChanged ==
    \/ NextNewGraph
    \/ \E observer \in Observers : subscribe(observer) \/ unsubscribe(observer)

SpecChanged == Init /\ [][NextChanged]_vars

\* The NewGraph, and the Graph as tiles are ingested whole and nodes cached.
NextNodes ==
    \/ NextNewGraph
    \/ \E data \in ImagePayloads : addNodesFromAPI(data, TileUniverse)
    \/ \E key \in ImageKeys : \E spatial \in SeqsUpTo(EdgesFrom(key), MaxEdges) :
          cacheNode(key, spatial)

SpecNodes == Init /\ [][NextNodes]_vars

\* The Graph as the payloads that follow the first bring, under the key of
\* the sequence that is registered, another list of keys.
NextSequences ==
    \/ /\ _sequences = <<>>
       /\ \E data \in ImagePayloads : \E loaded \in SUBSET TileUniverse :
             addNodesFromAPI(data, loaded)
    \/ /\ _sequences # <<>>
       /\ \E data \in ImagePayloads : \E loaded \in SUBSET TileUniverse :
             /\ \A i \in DOMAIN data.ss :
                   data.ss[i].keys # _sequences[data.ss[i].key].keys
             /\ addNodesFromAPI(data, loaded)

SpecSequences == InitEdges /\ [][NextSequences]_vars

\* The coordinates of the images of a tile, as distances from its southern
\* and western edges: on an edge, beside the threshold on either side of it,
\* and in the middle.
Coordinates ==
    {0, Threshold - 1, Threshold, TileSize \div 2, TileSize - Threshold,
     TileSize - Threshold + 1, TileSize}

\* The payloads of the home tile that hold one image, anywhere in the tile.
CoveragePayloads ==
    {[hs |-> <<HomeTile>>,
      ss |-> <<[key |-> "s", keys |-> <<1, 2, 3>>]>>,
      ims |-> <<[key |-> key,
                 lat |-> bounds(HomeTile).sw.lat + north,
                 lon |-> bounds(HomeTile).sw.lon + east]>>] :
        key \in ImageKeys, north \in Coordinates, east \in Coordinates}

\* The Graph as images all over a tile are ingested.
NextCoverage ==
    \E data \in CoveragePayloads : addNodesFromAPI(data, TileUniverse)

SpecCoverage == InitEdges /\ [][NextCoverage]_vars

\* The calls of render.
NextRenderer ==
    \E node \in RenderedNodes : \E configuration \in Configurations :
        render(node, configuration)

SpecRenderer == InitEdges /\ [][NextRenderer]_vars

\* The calls of wrap and wrapAngle.
NextSpatial ==
    \/ \E v \in -MaxValue..MaxValue : \E min, max \in -MaxLimit..MaxLimit :
          wrap(v, min, max)
    \/ \E angle \in -MaxValue..MaxValue : wrapAngle(angle)
    \/ wrapLoop
    \/ wrapReturn

SpecSpatial == InitEdges /\ [][NextSpatial]_vars

\* A call of wrap that is under way goes on: the loop is tested and its
\* body run as long as a step of it is there to take.
SpecSpatialFair == SpecSpatial /\ WF_vars(wrapLoop) /\ WF_vars(wrapReturn)

\* ------------------------------------------------------------------------
\* Properties of NewGraph
\* ------------------------------------------------------------------------

Filled(key) == hasNode(key) /\ getNode(key).fill # Null

\* C1: while the imageByKeyFull request of fetch(key) is pending, a second
\* fetch(key) throws "Already fetching" and fill(key) throws "Cannot fill
\* node while fetching", in the call itself.
C1_CallWhileFetchPendingThrows ==
    [][\A key \in Keys :
          fullRequests[key] > 0 =>
              /\ fetch(key) => thrown' = ErrAlreadyFetching(key)
              /\ fill(key) => thrown' = ErrFillWhileFetching(key)]_vars

\* A second fetch(key) has thrown while the first request is pending.
C1_Witness ==
    \E key \in Keys : fullRequests[key] > 0 /\ thrown = ErrAlreadyFetching(key)

\* C2: no key is fetching and filling at once, and no key has more than one
\* full request or more than one fill request in flight.
C2_ExclusiveAtMostOneInFlight ==
    \A key \in Keys :
        /\ ~(fetching(key) /\ filling(key))
        /\ fullRequests[key] <= 1
        /\ fillRequests[key] <= 1

\* One key is fetching and another filling, each with its request in flight.
C2_Witness ==
    \E k1, k2 \in Keys :
        /\ fetching(k1) /\ fullRequests[k1] = 1
        /\ filling(k2) /\ fillRequests[k2] = 1

\* C3: when the request of fetch(key) fails, the key leaves _fetching and the
\* failure reaches a handler (so that a later fetch(key) is accepted).
C3_FailedFetchClearsFetching ==
    [][\A key \in Keys :
          fetchRejected(key) =>
              /\ key \notin _fetching'
              /\ <<"imageByKeyFull", key>> \notin unhandled']_vars

\* C4: every outcome of the request of an accepted fill(key) (the node
\* augmented, the node found filled, the request failed) leaves the key out
\* of _filling.
C4_FillingClearedOnEveryOutcome ==
    [][\A key \in Keys :
          (fillFulfilled(key) \/ fillRejected(key)) => key \notin _filling']_vars

\* C5: a successful completion of fetch(key) leaves the node in the graph,
\* the key out of _fetching, and has pushed exactly one value into _changed$,
\* whatever other keys are fetching or were fetched before.
C5_FetchCompletion ==
    [][\A key \in Keys :
          fetchFulfilled(key) =>
              /\ key \in DOMAIN ng_graph'
              /\ key \notin _fetching'
              /\ _changed' = _changed + 1]_vars

\* Two keys were fetched and both completions have been notified.
C5_Witness ==
    \E k1, k2 \in Keys :
        /\ k1 # k2
        /\ Filled(k1) /\ getNode(k1).fill = "IFullNode"
        /\ Filled(k2) /\ getNode(k2).fill = "IFullNode"
        /\ _fetching = {}
        /\ _changed = 2

\* C6: fetch(key) on a key whose node is in the graph throws and changes
\* nothing.
C6_FetchOfExistingNodeThrows ==
    [][\A key \in Keys :
          (hasNode(key) /\ fetch(key)) =>
              /\ thrown' \in {ErrAlreadyFetching(key), ErrNodeExists(key)}
              /\ UNCHANGED <<ng_graph, _fetching, fullRequests>>]_vars

\* fetch(key) has thrown for a node that exists.
C6_Witness ==
    \E key \in Keys : hasNode(key) /\ thrown = ErrNodeExists(key)

\* C7: fill(key) throws when the key is fetching or filling, has no node, or
\* has a filled node, and is accepted (the key starts filling and one
\* request is sent) in every other case.
C7_FillPreconditions ==
    [][\A key \in Keys :
          fill(key) =>
              IF fetching(key) \/ filling(key) \/ ~hasNode(key) \/ Filled(key)
              THEN /\ thrown' # NoError
                   /\ UNCHANGED <<ng_graph, _filling, fillRequests>>
              ELSE /\ thrown' = NoError
                   /\ _filling' = _filling \cup {key}
                   /\ fillRequests'[key] = fillRequests[key] + 1]_vars

\* fill(key) has thrown on a key that is filling.
C7_Witness ==
    \E key \in Keys : filling(key) /\ thrown = ErrAlreadyFilling(key)

\* C8: once a node has its fill, no step changes it: a completion of fill
\* that finds the node filled neither augments nor notifies, and fill(key)
\* on it throws.
C8_FillSetAtMostOnce ==
    [][\A key \in Keys :
          Filled(key) =>
              /\ key \in DOMAIN ng_graph'
              /\ ng_graph'[key].fill = ng_graph[key].fill
              /\ fillFulfilled(key) => _changed' = _changed
              /\ fill(key) => thrown' # NoError]_vars

\* A node was filled by a completion of fill, and a later fill(key) has
\* thrown.
C8_Witness ==
    \E key \in Keys :
        /\ Filled(key) /\ getNode(key).fill = "IFillNode"
        /\ thrown = ErrAlreadyFilled(key)

\* A step that augments the graph of the NewGraph: a successful completion of
\* fetch, or a completion of fill that finds the node without fill.
Completion ==
    \E key \in Keys : fetchFulfilled(key) \/ (fillFulfilled(key) /\ ~Filled(key))

\* A step of addNodesFromAPI that added or promoted a node.
IngestWithChange == _graph' # _graph

AllLoaded(node, loaded) == \A h \in Range(node.hs) : h \in loaded

C11_CoveredNodesWorthyAfterEveryIngest ==
    called \in {"addNodesFromAPI(data)", "addNodesFromAPI(undefined)"} =>
        \A key \in DOMAIN _graph :
            AllLoaded(_graph[key], tiles) => _graph[key].worthy

\* The spatial items of a key.
ItemsOf(index, key) == {item \in BagToSet(index) : item.node = key}

\* C12: a call of addNodesFromAPI leaves every node the graph held as it was
\* inserted (position, hs, sequence) and with its one spatial item, and a
\* call that brings no new key leaves the number of nodes and the number of
\* spatial items unchanged.
C12_ReingestKeepsFirstInstance ==
    [][called' = "addNodesFromAPI(data)" =>
          \A data \in Payloads :
              addNodesFromAPI(data, tiles') =>
                  /\ \A key \in DOMAIN _graph :
                        /\ key \in DOMAIN _graph'
                        /\ _graph'[key].latLon = _graph[key].latLon
                        /\ _graph'[key].hs = _graph[key].hs
                        /\ _graph'[key].sequence = _graph[key].sequence
                        /\ ItemsOf(_nodeIndex', key) = {SpatialItem(_graph[key])}
                        /\ CopiesIn(SpatialItem(_graph[key]), _nodeIndex') = 1
                  /\ (\A i \in DOMAIN data.ims : data.ims[i].key \in DOMAIN _graph) =>
                        /\ Cardinality(DOMAIN _graph') = Cardinality(DOMAIN _graph)
                        /\ BagCardinality(_nodeIndex') = BagCardinality(_nodeIndex)]_vars

\* A worthy node was ingested again (the call marked its key in
\* _unWorthyNodes) while its tile was not among those given: it is in the
\* graph once, with one spatial item.
C12_Witness ==
    \E key \in DOMAIN _graph :
        /\ _graph[key].worthy
        /\ key \in DOMAIN _unWorthyNodes
        /\ BagCardinality(_nodeIndex) = Cardinality(DOMAIN _graph)

\* ------------------------------------------------------------------------
\* Properties of the edges
\* ------------------------------------------------------------------------

\* The lists of edges a call of cacheNode(key) can be answered with.
Answers(key) == SeqsUpTo(EdgesFrom(key), MaxEdges)

\* The out-edges of a key as getEdges tells them: destination and data.
EdgeSet(edges, key) == {[to |-> e.w, data |-> e.data] : e \in Range(edges[key])}

\* C13: a node that is not worthy has no out-edges and no cached edges, and
\* cacheNode on it changes neither the edges of the graph nor any node.
C13_CacheNodeOfUnworthyNodeIsNoOp ==
    [][/\ \A key \in DOMAIN _graph' :
             ~_graph'[key].worthy =>
                 /\ _edges'[key] = <<>>
                 /\ ~_graph'[key].edgesCached
                 /\ _graph'[key].edges = <<>>
       /\ \A key \in ImageKeys \cap {calledWith'.key} :
             (called' = "cacheNode" /\ cacheNode(key, <<>>) /\ ~_graph[key].worthy) =>
                 UNCHANGED <<_graph, _edges>>]_vars

\* cacheNode was called on a node that is not worthy, in a graph that has a
\* worthy node with cached edges.
C13_Witness ==
    /\ called = "cacheNode"
    /\ ~_graph[calledWith.key].worthy
    /\ \E key \in DOMAIN _graph : _graph[key].worthy /\ _graph[key].edgesCached

\* C14: after cacheNode on a worthy node its out-edges are those of this
\* run, the sequence edges and the edges the calculators returned, and no
\* others; the out-edges of every other key are what they were.
C14_EdgesReplacedWholesale ==
    [][\A key \in ImageKeys \cap {calledWith'.key} : \A spatial \in Answers(key) :
          (called' = "cacheNode" /\ cacheNode(key, spatial) /\ _graph[key].worthy) =>
              /\ EdgeSet(_edges', key) =
                    {[to |-> e.to, data |-> e.data] :
                        e \in Range(computeSequenceEdges(_graph[key]) \o spatial)}
              /\ \A other \in DOMAIN _edges \ {key} : _edges'[other] = _edges[other]]_vars

\* cacheNode has run on a worthy node that was cached before, while another
\* node has its own cached out-edges.
C14_Witness ==
    /\ called = "cacheNode"
    /\ calledWith.again
    /\ _graph[calledWith.key].worthy
    /\ \E other \in DOMAIN _graph \ {calledWith.key} :
          _graph[other].edgesCached /\ _edges[other] # <<>>

\* C15: the edges getEdges returns for a node hold no two edges with the
\* same destination and direction.
C15_OneEdgePerDestinationAndDirection ==
    \A key \in DOMAIN _graph :
        LET list == getEdges(_edges, _graph[key])
        IN  \A i, j \in DOMAIN list :
                (list[i].to = list[j].to
                    /\ list[i].data.direction = list[j].data.direction) => i = j

\* The calculators returned the same edge twice for a node, and the node
\* has its edges cached.
C15_Witness ==
    \E key \in DOMAIN _graph :
        /\ _graph[key].edgesCached
        /\ key \in DOMAIN computed
        /\ \E i, j \in DOMAIN computed[key] : i # j /\ computed[key][i] = computed[key][j]

Destinations(edges, key, direction) ==
    {e.w : e \in {x \in Range(edges[key]) : x.data.direction = direction}}

\* C17: after cacheNode on a worthy node at place i of the keys of its
\* sequence, its Next edges lead to the key at place i + 1 and nowhere else,
\* its Prev edges to the key at place i - 1 and nowhere else, whatever the
\* calculators returned.
C17_SequenceEdges ==
    [][\A key \in ImageKeys \cap {calledWith'.key} : \A spatial \in Answers(key) :
          (called' = "cacheNode" /\ cacheNode(key, spatial) /\ _graph[key].worthy /\ _graph[key].sequence # Null) =>
              LET keys == _sequences[_graph[key].sequence].keys
              IN  \A i \in DOMAIN keys :
                      keys[i] = key =>
                          /\ Destinations(_edges', key, "Next") =
                                {keys[j] : j \in {i + 1} \cap DOMAIN keys}
                          /\ Destinations(_edges', key, "Prev") =
                                {keys[j] : j \in {i - 1} \cap DOMAIN keys}]_vars

\* Of the sequence <<1, 2, 3>> the first node has its Next edge and no
\* Prev edge, the second its Prev edge and its Next edge.
C17_Witness ==
    /\ {1, 2} \subseteq DOMAIN _graph
    /\ _sequences["s"].keys = <<1, 2, 3>>
    /\ _graph[1].edgesCached /\ _graph[2].edgesCached
    /\ Destinations(_edges, 1, "Next") = {2}
    /\ Destinations(_edges, 1, "Prev") = {}
    /\ Destinations(_edges, 2, "Prev") = {1}
    /\ Destinations(_edges, 2, "Next") = {3}

\* C18: nextKey returns the destination of the first out-edge of the node
\* that has the direction asked for, and null when no out-edge has it;
\* nextNode returns null when nextKey returns null and only then.
C18_NextKeyFirstOfDirection ==
    [][\A key \in ImageKeys : \A dir \in EdgeDirection :
          next(key, dir) =>
              LET out == _edges[key]
                  hits == {i \in DOMAIN out : out[i].data.direction = dir}
              IN  /\ hits = {} => returned'.key = NullKey
                  /\ \A i \in hits :
                        (\A j \in hits : i <= j) => returned'.key = out[i].w
                  /\ returned'.node = JsNull <=> returned'.key = NullKey]_vars

\* A caller asked for a direction that two out-edges of the node have, and
\* was given the destination of the first of them and its node.
C18_Witness ==
    /\ called = "nextNode"
    /\ \E i, j \in DOMAIN _edges[calledWith.key] :
          /\ i < j
          /\ _edges[calledWith.key][i].data.direction = calledWith.dir
          /\ _edges[calledWith.key][j].data.direction = calledWith.dir
          /\ returned.key = _edges[calledWith.key][i].w
          /\ returned.key # _edges[calledWith.key][j].w
          /\ returned.key \in DOMAIN _graph
          /\ returned.node = _graph[returned.key]

\* ------------------------------------------------------------------------
\* Properties of Spatial
\* ------------------------------------------------------------------------

\* value differs from the value wrap was called with by a multiple of the
\* interval.
WrappedByIntervals ==
    \E n \in -(2 * MaxValue)..(2 * MaxValue) :
        value = wrapArgs.value + n * (wrapArgs.max - wrapArgs.min)

C21_CoverageOfEdgesAndCorners ==
    \A key \in DOMAIN _graph :
        LET node == _graph[key]
            h == node.hs[1]
            nbs == neighbours(h)
            cover == Range(node.hs)
            north == bounds(h).ne.lat - node.latLon.lat < Threshold
            south == node.latLon.lat - bounds(h).sw.lat < Threshold
            west == node.latLon.lon - bounds(h).sw.lon < Threshold
            east == bounds(h).ne.lon - node.latLon.lon < Threshold
        IN  /\ h = HomeTile
            /\ Len(node.hs) = Cardinality(cover)
            /\ cover \ {h} \subseteq Range(nbs)
            /\ Cardinality(cover \ {h}) <= 3
            /\ nbs.n \in cover <=> north
            /\ nbs.s \in cover <=> south
            /\ nbs.w \in cover <=> west
            /\ nbs.e \in cover <=> east
            /\ nbs.nw \in cover <=> north /\ west
            /\ nbs.ne \in cover <=> north /\ east
            /\ nbs.sw \in cover <=> south /\ west
            /\ nbs.se \in cover <=> south /\ east

\* One node lies just inside the threshold of the northern and of the
\* western edge and has the three neighbours of that corner; another lies at
\* the threshold from the eastern edge and has the home tile alone.
C21_Witness ==
    \E k1, k2 \in DOMAIN _graph :
        /\ _graph[k1].latLon = [lat |-> TileSize - Threshold + 1, lon |-> Threshold - 1]
        /\ Range(_graph[k1].hs) = {HomeTile, <<0, 1>>, <<-1, 1>>, <<-1, 0>>}
        /\ _graph[k2].latLon = [lat |-> TileSize \div 2, lon |-> TileSize - Threshold]
        /\ _graph[k2].hs = <<HomeTile>>

\* C22: a key that hasNode and getNode report a node for has its node after
\* every step: a call or a completion of fetch or fill, a fill by another
\* holder, an ingest and a cacheNode.
C22_NodesNeverDeleted ==
    [][/\ \A key \in Keys : hasNode(key) => key \in DOMAIN ng_graph'
       /\ \A key \in DOMAIN _graph : key \in DOMAIN _graph']_vars

\* Two nodes are in the Graph, both with cached edges, after cacheNode on the
\* second: each is there after the ingest of the other and the calls of
\* cacheNode.
C22_Witness ==
    /\ called = "cacheNode"
    /\ calledWith.key = 2
    /\ {1, 2} \subseteq DOMAIN _graph
    /\ _graph[1].edgesCached /\ _graph[2].edgesCached

\* C23: a step that pushes a value into _changed$ delivers it to the
\* observers subscribed at that step and to no other, and a step that pushes
\* none (a subscription among them) delivers nothing: an observer that
\* subscribes later is not told of the value.
C23_DeliveredToSubscribersOfTheMoment ==
    [][/\ _changed' # _changed => delivered' = subscribers
       /\ _changed' = _changed => delivered' = delivered]_vars

\* Two values were pushed; the second was delivered to the one observer
\* subscribed then, and the other observer has subscribed since.
C23_Witness ==
    /\ _changed = 2
    /\ delivered = {"a"}
    /\ subscribers = {"a", "b"}

\* C24: a call of fetch or fill that throws leaves the fetching set, the
\* filling set, the nodes of the graph with their fill, and the requests in
\* flight as they were, and pushes nothing into _changed$.
C24_RejectedCallChangesNothing ==
    [][\A key \in Keys :
          ((fetch(key) \/ fill(key)) /\ thrown' # NoError) =>
              UNCHANGED <<ng_graph, _fetching, _filling, fullRequests, fillRequests,
                          _changed, delivered>>]_vars

\* fill has thrown for a key that has no node, which is not filling and has
\* no request in flight, while another key is filling.
C24_Witness ==
    \E k1, k2 \in Keys :
        /\ thrown = ErrNodeMissing(k1)
        /\ ~hasNode(k1) /\ ~filling(k1) /\ fillRequests[k1] = 0
        /\ filling(k2) /\ fillRequests[k2] = 1

\* C25: every call of wrap that passes the check of its arguments returns.
C25_WrapTerminates == (wrapPc = "loop") ~> (wrapPc = "returned")

\* C26: after every call of addNodesFromAPI the keys of _unWorthyNodes are
\* the keys of the nodes of the graph that are not worthy, and a worthy node
\* stays worthy and out of _unWorthyNodes through every step.
C26_UnworthyKeysAreUnworthyNodes ==
    [][/\ called' \in {"addNodesFromAPI(data)", "addNodesFromAPI(undefined)"} =>
             DOMAIN _unWorthyNodes' = {key \in DOMAIN _graph' : ~_graph'[key].worthy}
       /\ \A key \in DOMAIN _graph :
             _graph[key].worthy =>
                 /\ key \in DOMAIN _graph' /\ _graph'[key].worthy
                 /\ key \notin DOMAIN _unWorthyNodes']_vars

\* C27: the spatial index holds one item for the key of every node getNode
\* resolves, the item of that node, and no item of any other key.
C27_OneSpatialItemPerNode ==
    /\ \A key \in DOMAIN _graph :
          /\ ItemsOf(_nodeIndex, key) = {SpatialItem(_graph[key])}
          /\ CopiesIn(SpatialItem(_graph[key]), _nodeIndex) = 1
    /\ \A item \in BagToSet(_nodeIndex) : Graph_getNode(item.node) # Undefined
    /\ BagCardinality(_nodeIndex) = Cardinality(DOMAIN _graph)

\* Both images are nodes with their items in the index; the second was the
\* destination of an edge of the first, and the destination of another edge
\* is a key that has no node and no item.
C27_Witness ==
    /\ DOMAIN _graph = {1, 2}
    /\ {item.node : item \in BagToSet(_nodeIndex)} = {1, 2}
    /\ \E e \in Range(_edges[1]) : e.w = 2
    /\ \E key \in DOMAIN _edges \ DOMAIN _graph :
          \E e \in Range(_edges[1]) \cup Range(_edges[2]) : e.w = key

\* C28: the destination of every out-edge of the graph is the key of a node
\* of the graph, and when nextKey returns a key, nextNode returns the node of
\* that key.
C28_NextNodeResolvesNextKey ==
    [][/\ \A key \in DOMAIN _edges' :
             \A e \in Range(_edges'[key]) : e.w \in DOMAIN _graph'
       /\ \A key \in ImageKeys : \A dir \in EdgeDirection :
             (next(key, dir) /\ returned'.key # NullKey) =>
                 /\ returned'.key \in DOMAIN _graph
                 /\ returned'.node = _graph[returned'.key]]_vars

\* C29: a sequence key that is registered maps to the same Sequence, with
\* the same keys in the same order, after every step.
C29_SequenceKeptAsRegistered ==
    [][\A skey \in DOMAIN _sequences :
          /\ skey \in DOMAIN _sequences'
          /\ _sequences'[skey] = _sequences[skey]]_vars

\* The sequence was registered with the keys <<3, 1, 2>>, and both images
\* are nodes, one of them at least of a later payload that gave other keys
\* for the sequence: the nodes belong to the sequence as it was registered.
C29_Witness ==
    /\ "s" \in DOMAIN _sequences
    /\ _sequences["s"].keys = <<3, 1, 2>>
    /\ DOMAIN _graph = {1, 2}
    /\ \A key \in DOMAIN _graph : _graph[key].sequence = "s"

\* ------------------------------------------------------------------------
\* Properties of the sequence renderer
\* ------------------------------------------------------------------------

\* C30: in what render returns for a visible configuration, the arrow of
\* each of Next and Prev has a click handler exactly when the node has an
\* edge of that direction; its class is the Disabled one exactly when the node
\* has none, the Highlight one exactly when the edge leads to the configured
\* highlight key, and the plain one otherwise; the play button is enabled
\* exactly when the configured direction is Next or Prev and the node has an
\* edge of it; and when playing the button's click handler stops.
C30_ArrowsAndPlayButton ==
    (rendered # NoRender /\ rendered.configuration.visible) =>
        LET edges == rendered.node.edges
            configuration == rendered.configuration
            has(direction) == \E i \in DOMAIN edges : edges[i].data.direction = direction
            leads(direction, key) ==
                \E i \in DOMAIN edges :
                    edges[i].data.direction = direction /\ edges[i].to = key
            highlighted(direction) ==
                configuration.highlightKey # NullKey
                /\ leads(direction, configuration.highlightKey)
            arrow(direction) == vnode.children[IF direction = "Next" THEN 1 ELSE 2]
            plain(direction) == "div.SequenceStep" \o direction
            button == vnode.children[3]
        IN  /\ Len(vnode.children) = 3
            /\ \A direction \in {"Next", "Prev"} :
                  /\ arrow(direction).onclick # Null <=> has(direction)
                  /\ arrow(direction).selector = plain(direction) \o "Disabled"
                        <=> ~has(direction)
                  /\ arrow(direction).selector = plain(direction) \o "Highlight"
                        <=> highlighted(direction)
                  /\ arrow(direction).selector = plain(direction)
                        <=> (has(direction) /\ ~highlighted(direction))
            /\ button.selector = "div.SequencePlay"
                  <=> (configuration.direction \in {"Next", "Prev"}
                       /\ has(configuration.direction))
            /\ button.selector \in {"div.SequencePlay", "div.SequencePlayDisabled"}
            /\ configuration.playing => button.onclick = "component.stop()"

\* C30 as stated: the play button is enabled exactly when the node has an
\* edge of the configured direction, whichever direction is configured; the
\* arrows and the stop handler as above.
C30_PlayButtonOfAnyDirection ==
    (rendered # NoRender /\ rendered.configuration.visible) =>
        LET edges == rendered.node.edges
            configuration == rendered.configuration
            has(direction) == \E i \in DOMAIN edges : edges[i].data.direction = direction
            highlighted(direction) ==
                \E i \in DOMAIN edges :
                    /\ edges[i].data.direction = direction
                    /\ configuration.highlightKey # NullKey
                    /\ edges[i].to = configuration.highlightKey
            arrow(direction) == vnode.children[IF direction = "Next" THEN 1 ELSE 2]
            plain(direction) == "div.SequenceStep" \o direction
            button == vnode.children[3]
        IN  /\ \A direction \in {"Next", "Prev"} :
                  /\ arrow(direction).onclick # Null <=> has(direction)
                  /\ arrow(direction).selector = plain(direction) \o "Disabled"
                        <=> ~has(direction)
                  /\ arrow(direction).selector = plain(direction) \o "Highlight"
                        <=> highlighted(direction)
                  /\ arrow(direction).selector = plain(direction)
                        <=> (has(direction) /\ ~highlighted(direction))
            /\ button.selector = "div.SequencePlay" <=> has(configuration.direction)
            /\ configuration.playing => button.onclick = "component.stop()"

\* render was given a node with a Similar edge and a Next edge to the
\* highlight key and without a Prev edge, and a visible configuration that is
\* playing in the direction Similar: the Next arrow is highlighted, the Prev
\* arrow is disabled, and the play button is disabled and stops.
C30_Witness ==
    /\ rendered # NoRender
    /\ rendered.configuration =
          [visible |-> TRUE, direction |-> "Similar", playing |-> TRUE, highlightKey |-> 2]
    /\ rendered.node.edges = <<Edge(1, 2, "Similar"), Edge(1, 2, "Next")>>
    /\ vnode.children[1].selector = "div.SequenceStepNextHighlight"
    /\ vnode.children[2].selector = "div.SequenceStepPrevDisabled"
    /\ vnode.children[3].selector = "div.SequencePlayDisabled"
    /\ vnode.children[3].onclick = "component.stop()"

\* C20: every call of wrap with max <= min throws.
C20_WrapThrowsUnlessMaxAboveMin ==
    (wrapPc # "idle" /\ wrapArgs.max <= wrapArgs.min) => wrapPc = "thrown"

====
